---- MODULE Spec2Model ----
(***************************************************************************)
(* WORKBank dashboard: the data loader (data_loader.py) and the cached     *)
(* load_data entry point of the Streamlit script (streamlit_app.py).       *)
(*                                                                         *)
(* Numbers.  A rating cell is a rational [n, d] counted in tenths of a     *)
(* rating point (4.2 is [n |-> 42, d |-> 1]); a missing cell (pandas NaN)  *)
(* is NaN, the only value with d = 0.  Means are exact rationals in lowest *)
(* terms; binary floating-point rounding is not modelled.                  *)
(* Task identifiers are 1, 2, ... for "T001", "T002", ...; their numeric   *)
(* order is the order groupby sorts the keys in.                           *)
(* Columns the tables carry but that are modelled by one representative:   *)
(* "Job Security Rating" and "Enjoyment Rating" are aggregated exactly as  *)
(* "Automation Desire Rating" is (mean); "Domain" exactly as "Occupation"  *)
(* is (first, and counted by nunique).  The standard deviation column is   *)
(* left out.  A missing text cell is NoText.                               *)
(***************************************************************************)
EXTENDS Integers, Sequences, FiniteSets

VARIABLES
    worker_df,    \* load_data / prepare_analysis_data: the Worker Response table
    expert_df,    \* the Expert Rating table
    task_df,      \* the Task Metadata table
    combined_df,  \* the table prepare_analysis_data returned (<< >> before)
    pc,           \* position of the script's render cycle
    now,          \* the clock, in seconds
    remote,       \* state of the remote source: "ok" or the way it fails
    hub,          \* index of the snapshot the remote repository serves now
    hfCache,      \* st.cache_data(ttl=3600) of _load_from_huggingface: << >> or <<entry>>
    dataCache,    \* st.cache_data of load_data: << >> or <<entry>>
    fetched,      \* _load_from_huggingface: the tables the last run of its body had fetched
    exc,          \* the exception in flight: << >> or <<exception>>
    log,          \* records the logger emitted during the current render cycle
    attempted,    \* the body of _load_from_huggingface ran in the current render cycle
    shown,        \* what the previous render cycle displayed: << >> or <<result of load_data()>>
    stats         \* render_overview_tab: << >> or <<the dictionary get_summary_stats returned>>

vars == <<worker_df, expert_df, task_df, combined_df, pc, now, remote, hub,
          hfCache, dataCache, fetched, exc, log, attempted, shown, stats>>

----------------------------------------------------------------------------
(* Bounds of the model *)

MaxWorkerRows == 2
MaxExpertRows == 2
MaxTaskRows == 2
MaxTicks == 4

----------------------------------------------------------------------------
(* Values *)

NaN == [n |-> 0, d |-> 0]
NoText == "<NA>"

R(x) == [n |-> x, d |-> 1]
IsNaN(v) == v.d = 0

Abs(x) == IF x < 0 THEN -x ELSE x

RECURSIVE GCD(_, _)
GCD(a, b) == IF b = 0 THEN a ELSE GCD(b, a % b)

\* the rational n/d (d > 0) in lowest terms
Norm(n, d) == LET g == GCD(Abs(n), d) IN [n |-> n \div g, d |-> d \div g]

\* float comparison a < b: every comparison with NaN is false
Less(a, b) == /\ ~IsNaN(a)
              /\ ~IsNaN(b)
              /\ a.n * b.d < b.n * a.d

\* float addition and subtraction: NaN propagates
Add(a, b) == IF IsNaN(a) \/ IsNaN(b) THEN NaN
             ELSE Norm(a.n * b.d + b.n * a.d, a.d * b.d)
Sub(a, b) == IF IsNaN(a) \/ IsNaN(b) THEN NaN
             ELSE Norm(a.n * b.d - b.n * a.d, a.d * b.d)

RECURSIVE SumSeq(_)
SumSeq(s) == IF s = << >> THEN R(0) ELSE Add(Head(s), SumSeq(Tail(s)))

NotNaN(v) == ~IsNaN(v)

\* groupby(...).agg("count"): the number of non-missing cells of the group
Count(s) == Len(SelectSeq(s, NotNaN))

\* variant: the sum of the non-missing cells divided by the number of all rows
Mean_AllRows(s) == LET present == SelectSeq(s, NotNaN)
                       total == SumSeq(present)
                   IN IF present = << >> THEN NaN
                      ELSE Norm(total.n, total.d * Len(s))

\* groupby(...).agg("mean"): the mean of the non-missing cells, NaN if there are none
Mean(s) == LET present == SelectSeq(s, NotNaN)
               total == SumSeq(present)
           IN IF present = << >> THEN NaN
              ELSE Norm(total.n, total.d * Len(present))

\* variant: the cell of the first row of the group, missing or not
First_Positional(s) == IF s = << >> THEN NoText ELSE Head(s)

\* groupby(...).agg("first"): the first non-missing cell of the group
RECURSIVE First(_)
First(s) == IF s = << >> THEN NoText
            ELSE IF Head(s) # NoText THEN Head(s)
            ELSE First(Tail(s))

\* variant: the first argument, whatever the second is
PyMin_First(a, b) == a

\* the builtin min(a, b) of two arguments: b if b < a, else a
PyMin(a, b) == IF Less(b, a) THEN b ELSE a

----------------------------------------------------------------------------
(* prepare_analysis_data *)

Column(df, c) == [i \in 1..Len(df) |-> df[i][c]]

RowsOf(df, t) == SelectSeq(df, LAMBDA r : r.TaskID = t)

\* the keys of groupby("Task ID"): rows without an identifier are dropped
GroupKeys(df) == {df[i].TaskID : i \in 1..Len(df)} \ {0}

MinOf(S) == CHOOSE x \in S : \A y \in S : x <= y

\* groupby sorts the group keys
RECURSIVE SortedKeys(_)
SortedKeys(S) == IF S = {} THEN << >>
                 ELSE <<MinOf(S)>> \o SortedKeys(S \ {MinOf(S)})

WorkerSummaryRow(worker, t) ==
    LET g == RowsOf(worker, t)
    IN [TaskID |-> t,
        Desire |-> Mean(Column(g, "Desire")),
        WorkerCount |-> Count(Column(g, "Desire")),
        Task |-> First(Column(g, "Task")),
        Occupation |-> First(Column(g, "Occupation"))]

WorkerSummary(worker) ==
    LET keys == SortedKeys(GroupKeys(worker))
    IN [i \in 1..Len(keys) |-> WorkerSummaryRow(worker, keys[i])]

ExpertSummaryRow(expert, t) ==
    LET g == RowsOf(expert, t)
    IN [TaskID |-> t,
        Capability |-> Mean(Column(g, "Capability")),
        Confidence |-> Mean(Column(g, "Confidence"))]

ExpertSummary(expert) ==
    LET keys == SortedKeys(GroupKeys(expert))
    IN [i \in 1..Len(keys) |-> ExpertSummaryRow(expert, keys[i])]

RECURSIVE Flatten(_)
Flatten(ss) == IF ss = << >> THEN << >> ELSE Head(ss) \o Flatten(Tail(ss))

\* left.merge(expert_summary, on="Task ID", how="left")
MergeExpertRow(l, right) ==
    LET m == RowsOf(right, l.TaskID)
        Join(r) == [TaskID |-> l.TaskID, Desire |-> l.Desire,
                    WorkerCount |-> l.WorkerCount, Task |-> l.Task,
                    Occupation |-> l.Occupation,
                    Capability |-> r.Capability, Confidence |-> r.Confidence]
    IN IF m = << >>
       THEN <<Join([Capability |-> NaN, Confidence |-> NaN])>>
       ELSE [j \in 1..Len(m) |-> Join(m[j])]

\* variant: an outer join, which also keeps the rows only the right table has
MergeExpert_Outer(left, right) ==
    LET extra == SelectSeq(right, LAMBDA r : RowsOf(left, r.TaskID) = << >>)
    IN Flatten([i \in 1..Len(left) |-> MergeExpertRow(left[i], right)])
       \o [j \in 1..Len(extra) |->
              [TaskID |-> extra[j].TaskID, Desire |-> NaN, WorkerCount |-> 0,
               Task |-> NoText, Occupation |-> NoText,
               Capability |-> extra[j].Capability,
               Confidence |-> extra[j].Confidence]]

MergeExpert(left, right) ==
    Flatten([i \in 1..Len(left) |-> MergeExpertRow(left[i], right)])

\* variant: an inner join, which drops the rows without metadata
MergeTaskRow_Inner(l, right) ==
    LET m == RowsOf(right, l.TaskID)
    IN [j \in 1..Len(m) |->
          [TaskID |-> l.TaskID, Desire |-> l.Desire,
           WorkerCount |-> l.WorkerCount, Task |-> l.Task,
           Occupation |-> l.Occupation,
           Capability |-> l.Capability, Confidence |-> l.Confidence,
           Code |-> m[j].Code, Category |-> m[j].Category]]

\* variant: the whole metadata table is merged, and its description and
\* occupation replace those of the worker aggregate
MergeTaskRow_AllColumns(l, right) ==
    LET m == RowsOf(right, l.TaskID)
        Join(r) == [TaskID |-> l.TaskID, Desire |-> l.Desire,
                    WorkerCount |-> l.WorkerCount, Task |-> r.Task,
                    Occupation |-> r.Occupation,
                    Capability |-> l.Capability, Confidence |-> l.Confidence,
                    Code |-> r.Code, Category |-> r.Category]
    IN IF m = << >>
       THEN <<Join([Task |-> l.Task, Occupation |-> l.Occupation,
                    Code |-> NoText, Category |-> NoText])>>
       ELSE [j \in 1..Len(m) |-> Join(m[j])]

\* left.merge(task_df[["Task ID", "O*NET-SOC Code", "Task Category"]], on="Task ID", how="left")
MergeTaskRow(l, right) ==
    LET m == RowsOf(right, l.TaskID)
        Join(r) == [TaskID |-> l.TaskID, Desire |-> l.Desire,
                    WorkerCount |-> l.WorkerCount, Task |-> l.Task,
                    Occupation |-> l.Occupation,
                    Capability |-> l.Capability, Confidence |-> l.Confidence,
                    Code |-> r.Code, Category |-> r.Category]
    IN IF m = << >>
       THEN <<Join([Code |-> NoText, Category |-> NoText])>>
       ELSE [j \in 1..Len(m) |-> Join(m[j])]

MergeTask(left, right) ==
    Flatten([i \in 1..Len(left) |-> MergeTaskRow(left[i], right)])

Readiness(row) == PyMin(row.Desire, row.Capability)

Gap(row) == Sub(row.Desire, row.Capability)

Derive(row) ==
    [TaskID |-> row.TaskID, Desire |-> row.Desire,
     WorkerCount |-> row.WorkerCount, Task |-> row.Task,
     Occupation |-> row.Occupation,
     Capability |-> row.Capability, Confidence |-> row.Confidence,
     Code |-> row.Code, Category |-> row.Category,
     Readiness |-> Readiness(row),
     Gap |-> Gap(row)]

prepare_analysis_data(worker, expert, task) ==
    LET worker_summary == WorkerSummary(worker)
        expert_summary == ExpertSummary(expert)
        merged == MergeTask(MergeExpert(worker_summary, expert_summary), task)
    IN [i \in 1..Len(merged) |-> Derive(merged[i])]

----------------------------------------------------------------------------
(* get_summary_stats *)

\* Series.sum() of an integer column
RECURSIVE SumInt(_)
SumInt(s) == IF s = << >> THEN 0 ELSE Head(s) + SumInt(Tail(s))

\* Series.nunique(): the number of distinct non-missing cells
NUnique(s) == Cardinality({s[i] : i \in 1..Len(s)} \ {NoText})

DefinedIn(row) ==
    ~IsNaN(row.Desire) /\ ~IsNaN(row.Capability) /\ ~IsNaN(row.Readiness)

\* variant: the task count is the number of distinct identifiers and the worker
\* count the number of rows
get_summary_stats_Distinct(combined) ==
    [total_tasks |-> Cardinality({combined[i].TaskID : i \in 1..Len(combined)}),
     total_workers |-> Len(combined),
     avg_automation_desire |-> Mean(Column(combined, "Desire")),
     avg_expert_capability |-> Mean(Column(combined, "Capability")),
     avg_automation_readiness |-> Mean(Column(combined, "Readiness")),
     unique_occupations |-> NUnique(Column(combined, "Occupation"))]

\* variant: rows with any missing rating are dropped before the means are taken
get_summary_stats_DropNa(combined) ==
    LET complete == SelectSeq(combined, DefinedIn)
    IN [total_tasks |-> Len(combined),
        total_workers |-> SumInt(Column(combined, "WorkerCount")),
        avg_automation_desire |-> Mean(Column(complete, "Desire")),
        avg_expert_capability |-> Mean(Column(complete, "Capability")),
        avg_automation_readiness |-> Mean(Column(complete, "Readiness")),
        unique_occupations |-> NUnique(Column(combined, "Occupation"))]

\* Series.mean() skips the missing cells, as the mean aggregate of groupby does
get_summary_stats(combined) ==
    [total_tasks |-> Len(combined),
     total_workers |-> SumInt(Column(combined, "WorkerCount")),
     avg_automation_desire |-> Mean(Column(combined, "Desire")),
     avg_expert_capability |-> Mean(Column(combined, "Capability")),
     avg_automation_readiness |-> Mean(Column(combined, "Readiness")),
     unique_occupations |-> NUnique(Column(combined, "Occupation"))]

----------------------------------------------------------------------------
(* _load_mock_data: the built-in fallback tables *)

MockWorker == <<
    [TaskID |-> 1, Desire |-> R(42), Task |-> "Create marketing materials and promotional content",
     Occupation |-> "Marketing Managers"],
    [TaskID |-> 2, Desire |-> R(47), Task |-> "Analyze customer feedback and survey responses",
     Occupation |-> "Market Research Analysts"],
    [TaskID |-> 3, Desire |-> R(49), Task |-> "Schedule appointments and manage calendars",
     Occupation |-> "Administrative Assistants"],
    [TaskID |-> 4, Desire |-> R(12), Task |-> "Provide emotional support and counseling to patients",
     Occupation |-> "Clinical Social Workers"],
    [TaskID |-> 5, Desire |-> R(34), Task |-> "Write and edit technical documentation",
     Occupation |-> "Technical Writers"],
    [TaskID |-> 1, Desire |-> R(38), Task |-> "Create marketing materials and promotional content",
     Occupation |-> "Marketing Managers"],
    [TaskID |-> 2, Desire |-> R(45), Task |-> "Analyze customer feedback and survey responses",
     Occupation |-> "Market Research Analysts"] >>

\* variant: the expert row of T003 has no capability rating
MockExpert_MissingRating == <<
    [TaskID |-> 1, Capability |-> R(35), Confidence |-> R(42)],
    [TaskID |-> 2, Capability |-> R(41), Confidence |-> R(45)],
    [TaskID |-> 3, Capability |-> NaN, Confidence |-> R(49)],
    [TaskID |-> 4, Capability |-> R(15), Confidence |-> R(47)],
    [TaskID |-> 5, Capability |-> R(38), Confidence |-> R(40)] >>

MockExpert == <<
    [TaskID |-> 1, Capability |-> R(35), Confidence |-> R(42)],
    [TaskID |-> 2, Capability |-> R(41), Confidence |-> R(45)],
    [TaskID |-> 3, Capability |-> R(48), Confidence |-> R(49)],
    [TaskID |-> 4, Capability |-> R(15), Confidence |-> R(47)],
    [TaskID |-> 5, Capability |-> R(38), Confidence |-> R(40)] >>

MockTask == <<
    [TaskID |-> 1, Task |-> "Create marketing materials and promotional content",
     Occupation |-> "Marketing Managers",
     Code |-> "11-2021.00", Category |-> "Creative"],
    [TaskID |-> 2, Task |-> "Analyze customer feedback and survey responses",
     Occupation |-> "Market Research Analysts",
     Code |-> "13-1161.00", Category |-> "Analytical"],
    [TaskID |-> 3, Task |-> "Schedule appointments and manage calendars",
     Occupation |-> "Administrative Assistants",
     Code |-> "43-6011.00", Category |-> "Organizational"],
    [TaskID |-> 4, Task |-> "Provide emotional support and counseling to patients",
     Occupation |-> "Clinical Social Workers",
     Code |-> "21-1022.00", Category |-> "Interpersonal"],
    [TaskID |-> 5, Task |-> "Write and edit technical documentation",
     Occupation |-> "Technical Writers",
     Code |-> "27-3042.00", Category |-> "Communication"] >>

_load_mock_data == <<MockWorker, MockExpert, MockTask>>

----------------------------------------------------------------------------
(* The pure transformation on its own: inputs drawn from bounded tables *)

TaskIds == {1, 2}

WorkerRows == [TaskID : TaskIds,
               Desire : {NaN, R(38), R(42)},
               Task : {"Create marketing materials and promotional content"},
               Occupation : {"Marketing Managers"}]

ExpertRows == [TaskID : TaskIds,
               Capability : {R(35), R(41)},
               Confidence : {R(42)}]

TaskRows == [TaskID : TaskIds,
             Task : {"Create marketing materials"},
             Occupation : {"Advertising Managers"},
             Code : {"11-2021.00"},
             Category : {"Creative"}]

Tables(rows, lo, hi) == UNION {[1..k -> rows] : k \in lo..hi}

InitLoader ==
    /\ pc = "idle"
    /\ now = 0
    /\ remote = "ok"
    /\ hub = 1
    /\ hfCache = << >>
    /\ dataCache = << >>
    /\ fetched = << >>
    /\ exc = << >>
    /\ log = << >>
    /\ attempted = FALSE
    /\ shown = << >>
    /\ stats = << >>

InitPrep ==
    /\ worker_df \in Tables(WorkerRows, 1, MaxWorkerRows)
    /\ expert_df \in Tables(ExpertRows, 0, MaxExpertRows)
    /\ task_df \in Tables(TaskRows, 0, MaxTaskRows)
    /\ combined_df = << >>
    /\ InitLoader

\* a direct call prepare_analysis_data(worker_df, expert_df, task_df)
PrepareAnalysisData ==
    /\ combined_df = << >>
    /\ combined_df' = prepare_analysis_data(worker_df, expert_df, task_df)
    /\ UNCHANGED <<worker_df, expert_df, task_df, pc, now, remote, hub,
                   hfCache, dataCache, fetched, exc, log, attempted, shown, stats>>

\* a direct call get_summary_stats(combined_df) on the table just prepared
GetSummaryStats ==
    /\ combined_df # << >>
    /\ stats = << >>
    /\ stats' = <<get_summary_stats(combined_df)>>
    /\ UNCHANGED <<worker_df, expert_df, task_df, combined_df, pc, now, remote, hub,
                   hfCache, dataCache, fetched, exc, log, attempted, shown>>

NextPrep ==
    \/ PrepareAnalysisData
    \/ GetSummaryStats

SpecPrep == InitPrep /\ [][NextPrep]_vars

\* the same calls on worker tables whose text cells differ within a task or are missing
TextWorkerRows == [TaskID : TaskIds,
                   Desire : {R(38)},
                   Task : {NoText, "Draft reports", "Review reports"},
                   Occupation : {NoText, "Editors"}]

InitText ==
    /\ worker_df \in Tables(TextWorkerRows, 1, MaxWorkerRows)
    /\ expert_df \in Tables(ExpertRows, 0, 1)
    /\ task_df \in Tables(TaskRows, 0, 1)
    /\ combined_df = << >>
    /\ InitLoader

SpecText == InitText /\ [][NextPrep]_vars

----------------------------------------------------------------------------
(* The remote repository "SALT-NLP/WORKBank": the snapshots it may serve.  *)
(* Snapshot 3 has drifted from the schema: its worker table has no         *)
(* "Automation Desire Rating" column.                                      *)

HubSnapshots == <<
    << << [TaskID |-> 1, Desire |-> R(30), Task |-> "Prepare budgets",
            Occupation |-> "Accountants"],
          [TaskID |-> 1, Desire |-> R(40), Task |-> "Prepare budgets",
            Occupation |-> "Accountants"],
          [TaskID |-> 2, Desire |-> R(25), Task |-> "Audit accounts",
            Occupation |-> "Accountants"] >>,
       << [TaskID |-> 1, Capability |-> R(20), Confidence |-> R(40)] >>,
       << [TaskID |-> 1, Task |-> "Prepare budgets", Occupation |-> "Accountants",
            Code |-> "13-2011.00", Category |-> "Analytical"],
          [TaskID |-> 2, Task |-> "Prepare budgets", Occupation |-> "Accountants",
            Code |-> "13-2011.00", Category |-> "Analytical"] >> >>,
    << << [TaskID |-> 1, Desire |-> R(31), Task |-> "Prepare budgets",
            Occupation |-> "Accountants"],
          [TaskID |-> 3, Desire |-> NaN, Task |-> "Review contracts",
            Occupation |-> "Accountants"] >>,
       << [TaskID |-> 1, Capability |-> R(44), Confidence |-> R(30)],
          [TaskID |-> 3, Capability |-> R(27), Confidence |-> R(35)] >>,
       << [TaskID |-> 1, Task |-> "Prepare budgets", Occupation |-> "Accountants",
            Code |-> "13-2011.00", Category |-> "Analytical"],
          [TaskID |-> 3, Task |-> "Prepare budgets", Occupation |-> "Accountants",
            Code |-> "13-2011.00", Category |-> "Legal"] >> >>,
    << << [TaskID |-> 1, Task |-> "Prepare budgets",
            Occupation |-> "Accountants"] >>,
       << [TaskID |-> 1, Capability |-> R(21), Confidence |-> R(40)] >>,
       << [TaskID |-> 1, Task |-> "Prepare budgets", Occupation |-> "Accountants",
            Code |-> "13-2011.00", Category |-> "Planning"] >> >> >>

RemoteStates == {"ok", "no_library", "network", "malformed"}

TTL == 3600

Tick == TTL \div 2

\* a cache entry of st.cache_data(ttl=3600) is served while it is younger than the ttl
Fresh(cache) == IF cache = << >> THEN FALSE ELSE now < cache[1].at + TTL

\* the columns worker_df.groupby(...).agg({...}) looks up
HasColumns(worker) ==
    \A i \in 1..Len(worker) : {"TaskID", "Desire", "Task", "Occupation"} \subseteq DOMAIN worker[i]

\* what the statement at line 39 (import) or a load_dataset call raises
Raised(state) ==
    IF state = "no_library" THEN [type |-> "ImportError", msg |-> "No module named 'datasets'"]
    ELSE IF state = "network" THEN [type |-> "ConnectionError", msg |-> "Couldn't reach the Hub"]
    ELSE [type |-> "ValueError", msg |-> "malformed response"]

\* the handlers of _load_from_huggingface: both raise a plain Exception
Wrap(e) ==
    IF e.type = "ImportError"
    THEN [type |-> "Exception", msg |-> "datasets library not installed"]
    ELSE [type |-> "Exception", msg |-> "Failed to load data from HuggingFace"]

\* variant: a handler written "except ImportError"
Catches_ImportError(e) == e.type = "ImportError"

\* the classes "except Exception" catches
Catches(e) ==
    e.type \in {"Exception", "ImportError", "ConnectionError", "ValueError", "KeyError"}

Info(m) == [level |-> "INFO", msg |-> m]
Warning(m) == [level |-> "WARNING", msg |-> m]

----------------------------------------------------------------------------
(* One render cycle of the script: main() calls load_data() *)

\* the environment: the remote source breaks, recovers or publishes another snapshot
RemoteChanges ==
    /\ \E r \in RemoteStates \ {remote} : remote' = r
    /\ UNCHANGED <<worker_df, expert_df, task_df, combined_df, pc, now, hub,
                   hfCache, dataCache, fetched, exc, log, attempted, shown, stats>>

HubChanges ==
    /\ \E h \in (1..Len(HubSnapshots)) \ {hub} : hub' = h
    /\ UNCHANGED <<worker_df, expert_df, task_df, combined_df, pc, now, remote,
                   hfCache, dataCache, fetched, exc, log, attempted, shown, stats>>

TimePasses ==
    /\ pc = "idle"
    /\ now < MaxTicks * Tick
    /\ now' = now + Tick
    /\ UNCHANGED <<worker_df, expert_df, task_df, combined_df, pc, remote, hub,
                   hfCache, dataCache, fetched, exc, log, attempted, shown, stats>>

\* load_data() with an entry in its cache: the body does not run
LoadDataCached ==
    /\ pc = "idle"
    /\ dataCache # << >>
    /\ combined_df' = dataCache[1].combined_df
    /\ worker_df' = dataCache[1].worker_df
    /\ expert_df' = dataCache[1].expert_df
    /\ task_df' = dataCache[1].task_df
    /\ log' = << >>
    /\ attempted' = FALSE
    /\ pc' = "render"
    /\ UNCHANGED <<now, remote, hub, hfCache, dataCache, fetched, exc, shown>>
    /\ stats' = << >>

\* load_data() without one: the body runs and calls load_workbank_datasets()
LoadDataBody ==
    /\ pc = "idle"
    /\ dataCache = << >>
    /\ combined_df' = << >>
    /\ worker_df' = << >>
    /\ expert_df' = << >>
    /\ task_df' = << >>
    /\ log' = <<Info("Attempting to load data from HuggingFace...")>>
    /\ attempted' = FALSE
    /\ pc' = "_load_from_huggingface"
    /\ UNCHANGED <<now, remote, hub, hfCache, dataCache, fetched, exc, shown>>
    /\ stats' = << >>

\* _load_from_huggingface() with a fresh cache entry: the cached tables are returned
HfCached ==
    /\ pc = "_load_from_huggingface"
    /\ Fresh(hfCache)
    /\ worker_df' = hfCache[1].value[1]
    /\ expert_df' = hfCache[1].value[2]
    /\ task_df' = hfCache[1].value[3]
    /\ pc' = "prepare"
    /\ UNCHANGED <<combined_df, now, remote, hub, hfCache, dataCache, fetched,
                   exc, log, attempted, shown, stats>>

\* ... without one, or with an expired one: the body runs, first the import
HfImport ==
    /\ pc = "_load_from_huggingface"
    /\ ~Fresh(hfCache)
    /\ attempted' = TRUE
    /\ fetched' = << >>
    /\ IF remote = "no_library"
       THEN /\ exc' = <<Wrap(Raised(remote))>>
            /\ pc' = "except"
       ELSE /\ exc' = << >>
            /\ pc' = "load_dataset"
    /\ UNCHANGED <<worker_df, expert_df, task_df, combined_df, now, remote, hub,
                   hfCache, dataCache, log, shown, stats>>

\* the next of the three load_dataset(...)["train"].to_pandas() fetches succeeds;
\* after the third the tables are logged, cached and returned
LoadDatasetOk ==
    /\ pc = "load_dataset"
    /\ remote \in {"ok", "no_library"}
    /\ LET k == Len(fetched) + 1
           got == Append(fetched, HubSnapshots[hub][k])
       IN IF k < 3
          THEN /\ fetched' = got
               /\ UNCHANGED <<worker_df, expert_df, task_df, hfCache, log, pc>>
          ELSE /\ fetched' = got
               /\ log' = Append(log, Info("Loaded worker responses, expert ratings, tasks"))
               /\ hfCache' = <<[value |-> got, at |-> now]>>
               /\ worker_df' = got[1]
               /\ expert_df' = got[2]
               /\ task_df' = got[3]
               /\ pc' = "prepare"
    /\ UNCHANGED <<combined_df, now, remote, hub, dataCache, exc, attempted, shown, stats>>

\* a fetch fails: the exception leaves the body, nothing is returned or cached
LoadDatasetFails ==
    /\ pc = "load_dataset"
    /\ remote \in {"network", "malformed"}
    /\ exc' = <<Wrap(Raised(remote))>>
    /\ pc' = "except"
    /\ UNCHANGED <<worker_df, expert_df, task_df, combined_df, now, remote, hub,
                   hfCache, dataCache, fetched, log, attempted, shown, stats>>

\* variant: the handler keeps the tables already fetched and fills in the rest
LoadExcept_Partial ==
    /\ pc = "except"
    /\ exc # << >>
    /\ exc' = << >>
    /\ log' = log \o <<Warning("Failed to load from HuggingFace"),
                       Info("Using fallback mock data with real schema..."),
                       Info("Loaded mock data")>>
    /\ worker_df' = IF Len(fetched) >= 1 THEN fetched[1] ELSE _load_mock_data[1]
    /\ expert_df' = IF Len(fetched) >= 2 THEN fetched[2] ELSE _load_mock_data[2]
    /\ task_df' = _load_mock_data[3]
    /\ pc' = "prepare"
    /\ UNCHANGED <<combined_df, now, remote, hub, hfCache, dataCache, fetched,
                   attempted, shown, stats>>

\* load_workbank_datasets: except Exception as e -> warning, info, _load_mock_data()
LoadExcept ==
    /\ pc = "except"
    /\ exc # << >>
    /\ exc' = << >>
    /\ IF Catches(exc[1])
       THEN /\ log' = log \o <<Warning("Failed to load from HuggingFace"),
                               Info("Using fallback mock data with real schema..."),
                               Info("Loaded mock data")>>
            /\ worker_df' = _load_mock_data[1]
            /\ expert_df' = _load_mock_data[2]
            /\ task_df' = _load_mock_data[3]
            /\ pc' = "prepare"
            /\ UNCHANGED shown
       ELSE /\ pc' = "idle"
            /\ shown' = << >>
            /\ UNCHANGED <<worker_df, expert_df, task_df, log>>
    /\ UNCHANGED <<combined_df, now, remote, hub, hfCache, dataCache, fetched,
                   attempted, stats>>

\* load_data: prepare_analysis_data(...) and the return, which fills load_data's cache
LoadDataPrepare ==
    /\ pc = "prepare"
    /\ HasColumns(worker_df)
    /\ combined_df' = prepare_analysis_data(worker_df, expert_df, task_df)
    /\ dataCache' = <<[combined_df |-> combined_df', worker_df |-> worker_df,
                       expert_df |-> expert_df, task_df |-> task_df]>>
    /\ pc' = "render"
    /\ UNCHANGED <<worker_df, expert_df, task_df, now, remote, hub, hfCache,
                   fetched, exc, log, attempted, shown, stats>>

\* ... or the KeyError of a table without the expected columns: it leaves load_data
\* and main, nothing is cached by load_data and the script run ends with the error
LoadDataPrepareRaises ==
    /\ pc = "prepare"
    /\ ~HasColumns(worker_df)
    /\ shown' = << >>
    /\ pc' = "idle"
    /\ UNCHANGED <<worker_df, expert_df, task_df, combined_df, now, remote, hub,
                   hfCache, dataCache, fetched, exc, log, attempted, stats>>

Tabs == {"Overview", "Automation Desire", "Automation Viability", "Task Details",
         "Data Export"}

\* main: the selected tab is rendered from the result of load_data(); the
\* overview tab calls get_summary_stats
Render ==
    /\ pc = "render"
    /\ \E tab_selection \in Tabs :
          stats' = IF tab_selection = "Overview"
                   THEN <<get_summary_stats(combined_df)>>
                   ELSE << >>
    /\ shown' = <<[combined_df |-> combined_df, worker_df |-> worker_df,
                   expert_df |-> expert_df, task_df |-> task_df]>>
    /\ pc' = "idle"
    /\ UNCHANGED <<worker_df, expert_df, task_df, combined_df, now, remote, hub,
                   hfCache, dataCache, fetched, exc, log, attempted>>

Init ==
    /\ worker_df = << >>
    /\ expert_df = << >>
    /\ task_df = << >>
    /\ combined_df = << >>
    /\ InitLoader

Next ==
    \/ RemoteChanges
    \/ HubChanges
    \/ TimePasses
    \/ LoadDataCached
    \/ LoadDataBody
    \/ HfCached
    \/ HfImport
    \/ LoadDatasetOk
    \/ LoadDatasetFails
    \/ LoadExcept
    \/ LoadDataPrepare
    \/ LoadDataPrepareRaises
    \/ Render

Spec == Init /\ [][Next]_vars

----------------------------------------------------------------------------
(* Properties of prepare_analysis_data, checked under SpecPrep *)

Done == combined_df # << >>

Ids(df) == {df[i].TaskID : i \in 1..Len(df)}

\* C1: every combined row of a task that has worker rows but no expert rows has
\* both derived fields missing: Automation Readiness and Desire Capability Gap
C1_DerivedMissingWithoutExpert ==
    \A i \in 1..Len(combined_df) :
        RowsOf(expert_df, combined_df[i].TaskID) = << >>
            => /\ IsNaN(combined_df[i].Capability)
               /\ IsNaN(combined_df[i].Readiness)
               /\ IsNaN(combined_df[i].Gap)

UniqueTaskIds(task) ==
    \A i, j \in 1..Len(task) : task[i].TaskID = task[j].TaskID => i = j

\* C2: when the Task Metadata identifiers are unique, the combined table has
\* exactly one row per distinct task identifier of the Worker Response table
C2_OneRowPerWorkerTask ==
    (Done /\ UniqueTaskIds(task_df)) =>
        /\ Len(combined_df) = Cardinality(Ids(worker_df))
        /\ \A t \in Ids(worker_df) :
              Cardinality({i \in 1..Len(combined_df) : combined_df[i].TaskID = t}) = 1

C2_Witness ==
    /\ Done
    /\ UniqueTaskIds(task_df)
    /\ Len(worker_df) = 2
    /\ Cardinality(Ids(worker_df)) = 1
    /\ Len(combined_df) = 1
    /\ Ids(task_df) \ Ids(worker_df) # {}
    /\ Ids(expert_df) \ Ids(worker_df) # {}

\* C3: Worker Count of every combined row is at least 1 and is the number of
\* Worker Response rows with the row's task identifier
C3_WorkerCountIsRowCount ==
    \A i \in 1..Len(combined_df) :
        /\ combined_df[i].WorkerCount >= 1
        /\ combined_df[i].WorkerCount = Len(RowsOf(worker_df, combined_df[i].TaskID))

\* C7: in every combined row with both ratings present, Automation Readiness is
\* the smaller of the two and Desire Capability Gap is desire minus capability
C7_ReadinessIsMinGapIsDifference ==
    \A i \in 1..Len(combined_df) :
        LET row == combined_df[i]
        IN (~IsNaN(row.Desire) /\ ~IsNaN(row.Capability)) =>
               /\ row.Readiness \in {row.Desire, row.Capability}
               /\ ~Less(row.Desire, row.Readiness)
               /\ ~Less(row.Capability, row.Readiness)
               /\ ~IsNaN(row.Gap)
               /\ row.Gap.n * row.Desire.d * row.Capability.d
                    = (row.Desire.n * row.Capability.d - row.Capability.n * row.Desire.d)
                      * row.Gap.d

C7_Witness ==
    \E i, j \in 1..Len(combined_df) :
        /\ ~IsNaN(combined_df[i].Desire)
        /\ Less(combined_df[i].Capability, combined_df[i].Desire)
        /\ combined_df[i].Readiness = combined_df[i].Capability
        /\ combined_df[i].Gap.n > 0
        /\ Less(combined_df[j].Desire, combined_df[j].Capability)
        /\ combined_df[j].Readiness = combined_df[j].Desire
        /\ combined_df[j].Gap.n < 0

\* C8: no task identifier that the Worker Response table lacks appears in the
\* combined table, even if the Expert Rating and Task Metadata tables have it
C8_OnlyWorkerTasks ==
    \A i \in 1..Len(combined_df) : combined_df[i].TaskID \in Ids(worker_df)

C8_Witness ==
    /\ Done
    /\ \E t \in (Ids(expert_df) \cap Ids(task_df)) \ Ids(worker_df) :
          \A i \in 1..Len(combined_df) : combined_df[i].TaskID # t

RECURSIVE SumTenths(_)
SumTenths(s) == IF s = << >> THEN 0 ELSE Head(s).n + SumTenths(Tail(s))

IsMeanOf(v, cells) ==
    LET present == SelectSeq(cells, NotNaN)
    IN IF present = << >> THEN IsNaN(v)
       ELSE /\ ~IsNaN(v)
            /\ v.n * Len(present) = SumTenths(present) * v.d

Scenario ==
    /\ Column(RowsOf(worker_df, 1), "Desire") = <<R(42), R(38)>>
    /\ Column(RowsOf(expert_df, 1), "Capability") = <<R(35)>>

\* C10: in every combined row Automation Desire Rating is the arithmetic mean of
\* the (non-missing) desire ratings of the worker rows of the task and Expert
\* Capability Rating the mean over its expert rows; worker ratings 4.2 and 3.8
\* with one expert rating 3.5 give desire 4.0, count 2, readiness 3.5, gap +0.5
C10_RatingsAreGroupMeans ==
    \A i \in 1..Len(combined_df) :
        LET row == combined_df[i]
        IN /\ IsMeanOf(row.Desire, Column(RowsOf(worker_df, row.TaskID), "Desire"))
           /\ IsMeanOf(row.Capability, Column(RowsOf(expert_df, row.TaskID), "Capability"))
           /\ (Scenario /\ row.TaskID = 1) =>
                 /\ row.Desire = R(40)
                 /\ row.WorkerCount = 2
                 /\ row.Readiness = R(35)
                 /\ row.Gap = R(5)

C10_Witness ==
    /\ Done
    /\ Scenario
    /\ \E i \in 1..Len(combined_df) :
          /\ combined_df[i].TaskID = 1
          /\ combined_df[i].Desire = R(40)
          /\ combined_df[i].WorkerCount = 2

CombinedColumns ==
    {"TaskID", "Desire", "WorkerCount", "Task", "Occupation", "Capability",
     "Confidence", "Code", "Category", "Readiness", "Gap"}

\* C13: a task with worker rows is kept in the combined table; without expert
\* rows its capability and confidence are missing, without a metadata row its
\* occupation code and task category are; the metadata join adds only the
\* occupation code and the task category
C13_LeftJoinsKeepWorkerTasks ==
    Done =>
        /\ \A t \in Ids(worker_df) : \E i \in 1..Len(combined_df) : combined_df[i].TaskID = t
        /\ \A i \in 1..Len(combined_df) :
              LET row == combined_df[i]
                  w == RowsOf(worker_df, row.TaskID)
                  x == RowsOf(expert_df, row.TaskID)
                  m == RowsOf(task_df, row.TaskID)
              IN /\ DOMAIN row = CombinedColumns
                 /\ x = << >> => (IsNaN(row.Capability) /\ IsNaN(row.Confidence))
                 /\ m = << >> => (row.Code = NoText /\ row.Category = NoText)
                 /\ m # << >> => \E j \in 1..Len(m) :
                                    row.Code = m[j].Code /\ row.Category = m[j].Category
                 /\ \E k \in 1..Len(w) : row.Task = w[k].Task
                 /\ \E k \in 1..Len(w) : row.Occupation = w[k].Occupation

C13_Witness ==
    /\ Done
    /\ Len(combined_df) = 2
    /\ RowsOf(expert_df, combined_df[1].TaskID) = << >>
    /\ RowsOf(task_df, combined_df[1].TaskID) = << >>
    /\ IsNaN(combined_df[1].Capability)
    /\ combined_df[1].Category = NoText
    /\ RowsOf(expert_df, combined_df[2].TaskID) # << >>
    /\ RowsOf(task_df, combined_df[2].TaskID) # << >>
    /\ combined_df[2].Category = "Creative"
    /\ combined_df[2].Task # task_df[1].Task

\* C14 as claimed: the task description and occupation of every combined row
\* are those of the first Worker Response row with its task identifier, also
\* when that row's value is missing while later rows have it
C14_TextOfFirstRow ==
    \A i \in 1..Len(combined_df) :
        LET w == RowsOf(worker_df, combined_df[i].TaskID)
        IN /\ combined_df[i].Task = w[1].Task
           /\ combined_df[i].Occupation = w[1].Occupation

IsFirstPresent(v, cells) ==
    IF \A k \in 1..Len(cells) : cells[k] = NoText
    THEN v = NoText
    ELSE \E k \in 1..Len(cells) :
            /\ cells[k] = v
            /\ v # NoText
            /\ \A j \in 1..(k - 1) : cells[j] = NoText

\* C14 as amended: the task description and the occupation of every combined row
\* are, each on its own, the first non-missing value of the column among the
\* Worker Response rows with its task identifier, in input order, whatever later
\* rows hold; the value is missing only if all those rows miss it
C14_TextOfFirstPresentValue ==
    \A i \in 1..Len(combined_df) :
        LET w == RowsOf(worker_df, combined_df[i].TaskID)
        IN /\ IsFirstPresent(combined_df[i].Task, Column(w, "Task"))
           /\ IsFirstPresent(combined_df[i].Occupation, Column(w, "Occupation"))

C14_Witness ==
    /\ Done
    /\ Len(worker_df) = 2
    /\ worker_df[1].TaskID = worker_df[2].TaskID
    /\ worker_df[1].Task = NoText
    /\ worker_df[2].Task = "Review reports"
    /\ worker_df[1].Occupation = "Editors"
    /\ worker_df[2].Occupation = NoText
    /\ combined_df[1].Task = "Review reports"
    /\ combined_df[1].Occupation = "Editors"

----------------------------------------------------------------------------
(* Properties of get_summary_stats, checked under SpecPrep *)

RECURSIVE WorkersUpTo(_, _)
WorkersUpTo(df, k) == IF k = 0 THEN 0 ELSE df[k].WorkerCount + WorkersUpTo(df, k - 1)

\* C11: total_tasks is the number of rows of the combined table and
\* total_workers the sum of Worker Count over all its rows
C11_TotalsMatchTable ==
    stats # << >> =>
        /\ stats[1].total_tasks = Cardinality(DOMAIN combined_df)
        /\ stats[1].total_workers = WorkersUpTo(combined_df, Len(combined_df))

C11_Witness ==
    /\ stats # << >>
    /\ Len(combined_df) = 2
    /\ combined_df[1].TaskID = combined_df[2].TaskID
    /\ stats[1].total_tasks = 2
    /\ stats[1].total_workers = 4

RECURSIVE ProductOfDenominators(_)
ProductOfDenominators(s) ==
    IF s = << >> THEN 1 ELSE Head(s).d * ProductOfDenominators(Tail(s))

RECURSIVE ScaledSum(_, _)
ScaledSum(s, D) ==
    IF s = << >> THEN 0 ELSE Head(s).n * (D \div Head(s).d) + ScaledSum(Tail(s), D)

\* v is the mean of the cells that are present, and missing if none is
IsMeanOfPresent(v, cells) ==
    LET present == SelectSeq(cells, NotNaN)
        D == ProductOfDenominators(present)
    IN IF present = << >> THEN IsNaN(v)
       ELSE /\ ~IsNaN(v)
            /\ v.d * ScaledSum(present, D) = v.n * Len(present) * D

\* C15: each mean get_summary_stats returns is the mean of exactly the rows in
\* which that field is defined, whatever the other fields of those rows are, and
\* is missing (not an error) when no row defines the field
C15_MeansOverDefinedRows ==
    stats # << >> =>
        /\ IsMeanOfPresent(stats[1].avg_automation_desire, Column(combined_df, "Desire"))
        /\ IsMeanOfPresent(stats[1].avg_expert_capability, Column(combined_df, "Capability"))
        /\ IsMeanOfPresent(stats[1].avg_automation_readiness, Column(combined_df, "Readiness"))

C15_Witness ==
    /\ stats # << >>
    /\ Len(combined_df) = 2
    /\ IsNaN(combined_df[1].Desire)
    /\ combined_df[1].Capability = R(35)
    /\ combined_df[2].Desire = R(38)
    /\ IsNaN(combined_df[2].Capability)
    /\ stats[1].avg_automation_desire = R(38)
    /\ stats[1].avg_expert_capability = R(35)

----------------------------------------------------------------------------
(* Properties of the loader and its caches, checked under Spec *)

IsMock(r) == <<r.worker_df, r.expert_df, r.task_df>> = _load_mock_data

RemoteTables(k) == {HubSnapshots[h][k] : h \in 1..Len(HubSnapshots)}

IsRemote(r) == /\ r.worker_df \in RemoteTables(1)
               /\ r.expert_df \in RemoteTables(2)
               /\ r.task_df \in RemoteTables(3)

Loaded == [worker_df |-> worker_df, expert_df |-> expert_df, task_df |-> task_df]

\* C4: a fallback result is never cached: the render cycle after one that used
\* the fallback tables attempts the remote fetch again
C4_FallbackNeverCached ==
    (pc = "render" /\ shown # << >> /\ IsMock(shown[1])) => attempted

\* C5: the cached remote tables are invalidated by time: a render cycle after one
\* that used remote tables does without a fetch only inside the one-hour window,
\* where it returns the same tables; once the window has expired it refetches
C5_TimeBasedInvalidation ==
    (pc = "render" /\ shown # << >> /\ IsRemote(shown[1]) /\ ~attempted) =>
        /\ Fresh(hfCache)
        /\ Loaded.worker_df = shown[1].worker_df
        /\ Loaded.expert_df = shown[1].expert_df
        /\ Loaded.task_df = shown[1].task_df

\* C6: every error raised while fetching reaches the handler of
\* load_workbank_datasets, which logs a warning and returns the fallback tables;
\* no exception leaves load_workbank_datasets
C6_ErrorsFallBack ==
    [][/\ (exc = << >> /\ exc' # << >>) => pc' = "except"
       /\ (exc # << >> /\ exc' = << >>) =>
             /\ pc' = "prepare"
             /\ <<worker_df', expert_df', task_df'>> = _load_mock_data
             /\ \E i \in (Len(log) + 1)..Len(log') :
                   /\ log'[i].level = "WARNING"
                   /\ \E j \in (i + 1)..Len(log') :
                         log'[j].msg = "Using fallback mock data with real schema..."]_vars

C6_Witness ==
    /\ pc = "prepare"
    /\ exc = << >>
    /\ IsMock(Loaded)
    /\ \E i \in 1..Len(log) : log[i].level = "WARNING"
    /\ remote = "malformed"

\* C9: the three tables load_workbank_datasets returns are all remote or all
\* fallback tables, also when the fetch failed after one or two resources; the
\* transformation starts with all three tables
C9_OneProvenance ==
    pc \in {"prepare", "render"} => (IsMock(Loaded) \/ IsRemote(Loaded))

C9_Witness ==
    /\ pc = "prepare"
    /\ Len(fetched) = 2
    /\ IsMock(Loaded)

InAllFallbackTables == Ids(MockWorker) \cap Ids(MockExpert) \cap Ids(MockTask)

\* C12: the fallback tables, run through prepare_analysis_data and
\* get_summary_stats, give a defined Automation Readiness and Desire Capability
\* Gap for every task that is in all three of them (and defined means); they hold
\* a task with several worker rows and a task that is in all three tables
C12_FallbackDerivedDefined ==
    IsMock(Loaded) =>
        /\ \A i \in 1..Len(combined_df) :
              combined_df[i].TaskID \in InAllFallbackTables =>
                  /\ ~IsNaN(combined_df[i].Readiness)
                  /\ ~IsNaN(combined_df[i].Gap)
        /\ stats # << >> =>
              /\ ~IsNaN(stats[1].avg_automation_desire)
              /\ ~IsNaN(stats[1].avg_expert_capability)
              /\ ~IsNaN(stats[1].avg_automation_readiness)
        /\ \E t \in Ids(worker_df) : Len(RowsOf(worker_df, t)) >= 2
        /\ Ids(worker_df) \cap Ids(expert_df) \cap Ids(task_df) # {}

C12_Witness ==
    /\ IsMock(Loaded)
    /\ stats # << >>
    /\ stats[1].total_tasks = 5
    /\ stats[1].total_workers = 7
    /\ \E i \in 1..Len(combined_df) :
          /\ combined_df[i].TaskID = 3
          /\ combined_df[i].TaskID \in InAllFallbackTables
          /\ combined_df[i].Readiness = R(48)
          /\ combined_df[i].Gap = R(1)

====
